---- MODULE Spec2Model ----
(***************************************************************************)
(* Model of the Mandelbrot renderer of sritata-site:                       *)
(*   src/mandelbrot/mandelbrot.py      the escape-time engine, the         *)
(*                                     resumable cache engine, color_map   *)
(*   src/api/mandelbrot.py             the serverless copy of the engine   *)
(*   src/sritata-site/mandelbrot/zoom_mode.py   the ZoomApp session        *)
(*                                                                         *)
(* Floating point values are modelled as exact rationals <<n, d>> (d > 0,  *)
(* lowest terms).  The inputs are chosen so that every value the engines   *)
(* compare against the escape radius is far from the rounding error of a   *)
(* double.  Python exceptions are modelled as outcomes [ok |-> FALSE].     *)
(***************************************************************************)
EXTENDS Integers, Sequences, FiniteSets, TLC

VARIABLES
    vp,        \* the Viewport the calls are made with: width, height, x_center, y_center, scale
    cache,     \* the ComputationCache dict bound by the caller, or None
    targets,   \* the target_iter arguments passed to compute_from_cache since the cache was created
    prev,      \* the cache as it was when the last compute_from_cache call began
    ret,       \* the outcome of the last call: what it returned or raised
    app,       \* the ZoomApp object (zoom_mode.py), or NoApp outside a session
    rgbcall,   \* the last color_map call: its arguments and the channels it returned
    movie,     \* the make_movie_from_dir call: its arguments and the frames it wrote
    par,       \* a _mandelbrot_iter run with its rows shared among parallel workers
    http       \* an HTTP request to the serverless handler and the responses sent for it

vars == <<vp, cache, targets, prev, ret, app, rgbcall, movie, par, http>>

-----------------------------------------------------------------------------
(* Bounds of the model *)

\* largest target_iter / max_iter handed to the engines
MaxTarget == 3
\* largest number of compute_from_cache calls on one cache
MaxCalls == 2
\* largest width and height of a viewport
MaxDim == 2

Dims == -1 .. MaxDim
IterArgs == -1 .. MaxTarget
XCenters == {-1, 0}
YCenters == {0}
Scales == {-1, 0, 1}

-----------------------------------------------------------------------------
(* float arithmetic, as exact rationals *)

\* f as an explicit array: TLC keeps a function constructor unevaluated and would
\* recompute every element at every read; an ndarray holds its elements
Strict(f) == f @@ <<>>

Abs(x) == IF x < 0 THEN -x ELSE x

RECURSIVE GCD(_, _)
GCD(a, b) == IF b = 0 THEN a ELSE GCD(b, a % b)

Rat(n, d) ==
    LET g == GCD(Abs(n), Abs(d))
        s == IF d < 0 THEN -1 ELSE 1
    IN  <<s * (n \div g), s * (d \div g)>>

R(n) == <<n, 1>>

RAdd(a, b) ==
    LET l == (a[2] \div GCD(a[2], b[2])) * b[2]
    IN  Rat(a[1] * (l \div a[2]) + b[1] * (l \div b[2]), l)

RNeg(a) == <<-a[1], a[2]>>

RSub(a, b) == RAdd(a, RNeg(b))

RMul(a, b) ==
    LET g1 == GCD(Abs(a[1]), b[2])
        g2 == GCD(Abs(b[1]), a[2])
    IN  Rat((a[1] \div g1) * (b[1] \div g2), (a[2] \div g2) * (b[2] \div g1))

\* a / n for an integer n # 0
RDivInt(a, n) == RMul(a, Rat(1, n))

RLeq(a, b) == a[1] * b[2] <= b[1] * a[2]

RGt(a, b) == ~RLeq(a, b)

-----------------------------------------------------------------------------
(* outcomes of a call *)

Ok(v) == [ok |-> TRUE, err |-> "", val |-> v]

Raise(e) == [ok |-> FALSE, err |-> e, val |-> <<>>]

None == [ok |-> FALSE, err |-> "None", val |-> <<>>]

Pixels(width, height) == (0 .. height - 1) \X (0 .. width - 1)

-----------------------------------------------------------------------------
(* Grid Builder: the pixel-to-coordinate mapping *)

\* x_min, x_max, y_min, y_max of a viewport; width # 0
Extent(width, height, x_center, y_center, scale) ==
    LET y_scale == RDivInt(RMul(scale, R(height)), width)
    IN  [x_min |-> RSub(x_center, scale),
         x_max |-> RAdd(x_center, scale),
         y_min |-> RSub(y_center, y_scale),
         y_max |-> RAdd(y_center, y_scale)]

\* lo + (hi - lo) * k / div, for div # 0
Lerp(lo, hi, k, div) == RAdd(lo, RDivInt(RMul(RSub(hi, lo), R(k)), div))

\* the failure of the unguarded mapping "/ (height - 1)", "/ (width - 1)", if any:
\* the row loop divides by height - 1 at j = 0, the column loop by width - 1 at i = 0
UnguardedDivisionFails(width, height) ==
    \/ width = 0
    \/ height >= 1 /\ height - 1 = 0
    \/ height >= 1 /\ width >= 1 /\ width - 1 = 0

build_grid(width, height, x_center, y_center, scale) ==
    IF width = 0 THEN Raise("ZeroDivisionError")
    ELSE IF width < 0 \/ height < 0 THEN Raise("ValueError")
    ELSE IF UnguardedDivisionFails(width, height) THEN Raise("ZeroDivisionError")
    ELSE LET e == Extent(width, height, x_center, y_center, scale)
         IN  Ok([x |-> Strict([p \in Pixels(width, height) |->
                           Lerp(e.x_min, e.x_max, p[2], width - 1)]),
                 y |-> Strict([p \in Pixels(width, height) |->
                           Lerp(e.y_min, e.y_max, p[1], height - 1)])])

-----------------------------------------------------------------------------
(* Escape-Time Engine *)

Max(a, b) == IF a >= b THEN a ELSE b

Min(a, b) == IF a <= b THEN a ELSE b

\* x*x + y*y
Norm2(x, y) == RAdd(RMul(x, x), RMul(y, y))

\* one application of z <- z^2 + c
StepX(x, y, x0) == RAdd(RSub(RMul(x, x), RMul(y, y)), x0)

\* the step of z <- conj(z)^2 + c
StepY_conjugate(x, y, y0) == RAdd(RMul(RMul(R(-2), x), y), y0)

StepY(x, y, y0) == RAdd(RMul(RMul(R(2), x), y), y0)

\* the while loop of one pixel; yields the final iteration
RECURSIVE EscapeLoop(_, _, _, _, _, _)
EscapeLoop(x, y, iteration, x0, y0, max_iter) ==
    IF RLeq(Norm2(x, y), R(4)) /\ iteration < max_iter
    THEN EscapeLoop(StepX(x, y, x0), StepY(x, y, y0), iteration + 1, x0, y0, max_iter)
    ELSE iteration

\* what mandelbrot raises before it returns, if anything: np.empty refuses a negative
\* shape, then the divisions
mandelbrot_raises(width, height) ==
    IF width < 0 \/ height < 0 THEN Raise("ValueError")
    ELSE IF UnguardedDivisionFails(width, height) THEN Raise("ZeroDivisionError")
    ELSE Ok(<<>>)

mandelbrot(width, height, max_iter, x_center, y_center, scale) ==
    IF ~mandelbrot_raises(width, height).ok THEN mandelbrot_raises(width, height)
    ELSE LET e == Extent(width, height, x_center, y_center, scale)
         IN  Ok(Strict([p \in Pixels(width, height) |->
                    EscapeLoop(R(0), R(0), 0,
                               Lerp(e.x_min, e.x_max, p[2], width - 1),
                               Lerp(e.y_min, e.y_max, p[1], height - 1),
                               max_iter)]))

\* what the serverless copy raises before it returns, if anything: np.empty refuses a
\* negative shape, then scale * height / width
api_mandelbrot_raises(width, height) ==
    IF width < 0 \/ height < 0 THEN Raise("ValueError")
    ELSE IF width = 0 THEN Raise("ZeroDivisionError")
    ELSE Ok(<<>>)

\* the serverless copy: the divisor is max(1, n - 1)
api_mandelbrot(width, height, max_iter, x_center, y_center, scale) ==
    IF ~api_mandelbrot_raises(width, height).ok THEN api_mandelbrot_raises(width, height)
    ELSE LET e == Extent(width, height, x_center, y_center, scale)
         IN  Ok(Strict([p \in Pixels(width, height) |->
                    EscapeLoop(R(0), R(0), 0,
                               Lerp(e.x_min, e.x_max, p[2], Max(1, width - 1)),
                               Lerp(e.y_min, e.y_max, p[1], Max(1, height - 1)),
                               max_iter)]))

-----------------------------------------------------------------------------
(* Incremental Cache Engine *)

\* a sweep that steps every pixel, escaped or not
IterSweep_unfrozen(c) ==
    LET nx(p) == StepX(c.zx[p], c.zy[p], c.x0[p])
        ny(p) == StepY(c.zx[p], c.zy[p], c.y0[p])
    IN  [c EXCEPT
           !.zx = Strict([p \in DOMAIN c.zx |-> nx(p)]),
           !.zy = Strict([p \in DOMAIN c.zy |-> ny(p)]),
           !.iters = Strict([p \in DOMAIN c.iters |-> c.iters[p] + 1]),
           !.div_time = Strict([p \in DOMAIN c.div_time |->
                        IF c.div_time[p] = 0 /\ RGt(Norm2(nx(p), ny(p)), R(4))
                        THEN c.iters[p] + 1 ELSE c.div_time[p]])]

\* one sweep of the pixel loops inside the iteration loop
IterSweep(c) ==
    LET live(p) == c.div_time[p] = 0
        nx(p) == StepX(c.zx[p], c.zy[p], c.x0[p])
        ny(p) == StepY(c.zx[p], c.zy[p], c.y0[p])
    IN  [c EXCEPT
           !.zx = Strict([p \in DOMAIN c.zx |-> IF live(p) THEN nx(p) ELSE c.zx[p]]),
           !.zy = Strict([p \in DOMAIN c.zy |-> IF live(p) THEN ny(p) ELSE c.zy[p]]),
           !.iters = Strict([p \in DOMAIN c.iters |->
                        IF live(p) THEN c.iters[p] + 1 ELSE c.iters[p]]),
           !.div_time = Strict([p \in DOMAIN c.div_time |->
                        IF live(p) /\ RGt(Norm2(nx(p), ny(p)), R(4))
                        THEN c.iters[p] + 1 ELSE c.div_time[p]])]

RECURSIVE IterLoop(_, _, _)
IterLoop(c, iteration, max_iter) ==
    IF iteration < max_iter THEN IterLoop(IterSweep(c), iteration + 1, max_iter) ELSE c

\* no closing loop
Finalize_skipped(c) == c

\* the closing loop: points that never escaped get the iterations reached
Finalize(c) ==
    [c EXCEPT !.div_time = Strict([p \in DOMAIN c.div_time |->
                              IF c.div_time[p] = 0 THEN c.iters[p] ELSE c.div_time[p]])]

\* mandelbrot_iter without its closing loop
mandelbrot_iter_unfinalized(c, start_iter, max_iter) == IterLoop(c, start_iter, max_iter)

\* mandelbrot_iter with range(start_iter, max_iter + 1)
mandelbrot_iter_inclusive(c, start_iter, max_iter) ==
    Finalize(IterLoop(c, start_iter, max_iter + 1))

mandelbrot_iter(c, start_iter, max_iter) == Finalize(IterLoop(c, start_iter, max_iter))

create_cache(width, height, x_center, y_center, scale) ==
    LET g == build_grid(width, height, x_center, y_center, scale)
        px == Pixels(width, height)
    IN  IF ~g.ok THEN g
        ELSE Ok([zx |-> [p \in px |-> R(0)],
                 zy |-> [p \in px |-> R(0)],
                 iters |-> [p \in px |-> 0],
                 x0 |-> g.val.x,
                 y0 |-> g.val.y,
                 div_time |-> [p \in px |-> 0],
                 current_iter |-> 0])

\* compute_from_cache that first reopens the pixels finalized without escaping
compute_from_cache_resuming(c, target_iter) ==
    LET reopened == [c EXCEPT !.div_time = Strict([p \in DOMAIN c.div_time |->
                        IF RLeq(Norm2(c.zx[p], c.zy[p]), R(4)) THEN 0 ELSE c.div_time[p]])]
    IN  IF target_iter <= c.current_iter THEN c
        ELSE [mandelbrot_iter(reopened, c.current_iter, target_iter)
                 EXCEPT !.current_iter = target_iter]

\* compute_from_cache without its early return
compute_from_cache_unguarded(c, target_iter) ==
    [mandelbrot_iter(c, c.current_iter, target_iter) EXCEPT !.current_iter = target_iter]

\* the cache after the call; the call returns its div_time
compute_from_cache(c, target_iter) ==
    LET start == c.current_iter
    IN  IF target_iter <= start THEN c
        ELSE [mandelbrot_iter(c, start, target_iter) EXCEPT !.current_iter = target_iter]

\* the outcome is the cache; the call returns (its div_time, the cache)
compute_initial_and_cache(width, height, max_iter, x_center, y_center, scale) ==
    LET r == create_cache(width, height, x_center, y_center, scale)
    IN  IF ~r.ok THEN r ELSE Ok(compute_from_cache(r.val, max_iter))

-----------------------------------------------------------------------------
(* Color Mapper *)

\* largest div_time handed to color_map
MaxDivTime == 125
\* largest small max_iter handed to color_map (100 is handed too)
MaxColorIter == 4
\* the search range of a float-to-integer conversion
MaxTrunc == 1023

ColorIters == (-1 .. MaxColorIter) \cup {100}

\* what div_time / max_iter followed by sqrt yields for one pixel: "nan" for 0/0 and
\* for the root of a negative quotient, "inf" for a positive count over 0, else "num"
NormKind(d, max_iter) ==
    IF (max_iter = 0 /\ d = 0) \/ (max_iter < 0 /\ d > 0) \/ (max_iter > 0 /\ d < 0)
    THEN "nan"
    ELSE IF max_iter = 0 THEN "inf" ELSE "num"

\* A finite float of color_map is (a + b * norm) / den with norm = sqrt(qn / qd),
\* kept exactly as [a, b, den, qn, qd] (den > 0, qn >= 0, qd > 0).
Aff(a, b, den, v) == [a |-> a, b |-> b, den |-> den, qn |-> v.qn, qd |-> v.qd]

NormOf(d, max_iter) ==
    [a |-> 0, b |-> 1, den |-> 1,
     qn |-> Abs(d), qd |-> IF max_iter = 0 THEN 1 ELSE Abs(max_iter)]

\* v >= k, for an integer k
AffGeq(v, k) ==
    LET c == k * v.den - v.a
    IN  IF v.b = 0 THEN c <= 0
        ELSE IF v.b > 0 THEN c <= 0 \/ v.qn * v.b * v.b >= v.qd * c * c
        ELSE c <= 0 /\ v.qn * v.b * v.b <= v.qd * c * c

\* k * v, k - v and v - 1/2
AffScale(k, v) == Aff(k * v.a, k * v.b, v.den, v)

AffRSub(k, v) == Aff(k * v.den - v.a, -v.b, v.den, v)

AffSubHalf(v) == Aff(2 * v.a - v.den, 2 * v.b, 2 * v.den, v)

\* np.abs
AffAbs(v) == IF AffGeq(v, 0) THEN v ELSE Aff(-v.a, -v.b, v.den, v)

\* np.clip left out
Clip01_unclipped(v) == v

\* np.clip(v, 0, 1)
Clip01(v) ==
    IF ~AffGeq(v, 0) THEN Aff(0, 0, 1, v)
    ELSE IF AffGeq(v, 1) THEN Aff(1, 0, 1, v)
    ELSE v

\* the largest k in lo .. hi with v >= k, given v >= lo
RECURSIVE FloorIn(_, _, _)
FloorIn(v, lo, hi) ==
    IF lo = hi THEN lo
    ELSE LET mid == (lo + hi + 1) \div 2
         IN  IF AffGeq(v, mid) THEN FloorIn(v, mid, hi) ELSE FloorIn(v, lo, mid - 1)

\* the integer part of v, toward zero
Trunc(v) ==
    IF AffGeq(v, 0) THEN FloorIn(v, 0, MaxTrunc)
    ELSE -FloorIn(Aff(-v.a, -v.b, v.den, v), 0, MaxTrunc)

\* np.uint8 of a finite float: the integer part, in 8 bits
Uint8(v) == Trunc(v) % 256

\* the three channel expressions of one pixel, before the conversion to uint8
RedOf(norm) == AffScale(255, Clip01(AffScale(3, AffRSub(1, norm))))

\* the green channel without np.abs
GreenOf_signed(norm) == AffScale(255, Clip01(AffScale(3, AffSubHalf(norm))))

GreenOf(norm) == AffScale(255, Clip01(AffScale(3, AffAbs(AffSubHalf(norm)))))

BlueOf(norm) == AffScale(255, Clip01(AffScale(3, norm)))

\* the (r, g, b) of one pixel; nan_cast is what the build's float-to-uint8 conversion
\* makes of NaN (unspecified)
PixelColor(d, max_iter, nan_cast) ==
    LET kind == NormKind(d, max_iter)
        norm == NormOf(d, max_iter)
    IN  IF kind = "nan" THEN <<nan_cast, nan_cast, nan_cast>>
        ELSE IF kind = "inf" THEN <<0, 255, 255>>
        ELSE <<Uint8(RedOf(norm)), Uint8(GreenOf(norm)), Uint8(BlueOf(norm))>>

\* the rgb array; the call raises nothing
color_map(div_time, max_iter, nan_cast) ==
    Ok(Strict([p \in DOMAIN div_time |-> PixelColor(div_time[p], max_iter, nan_cast)]))

-----------------------------------------------------------------------------
(* The engine calls, made by a caller on one viewport *)

Viewports ==
    [width : Dims, height : Dims,
     x_center : {R(c) : c \in XCenters}, y_center : {R(c) : c \in YCenters},
     scale : {R(c) : c \in Scales}]

\* the outcomes of the whole-grid computations on every viewport and iteration
\* bound of the model, evaluated once
mandelbrot_of ==
    Strict([v \in Viewports, m \in IterArgs |->
        mandelbrot(v.width, v.height, m, v.x_center, v.y_center, v.scale)])

api_mandelbrot_of ==
    Strict([v \in Viewports, m \in IterArgs |->
        api_mandelbrot(v.width, v.height, m, v.x_center, v.y_center, v.scale)])

create_cache_of ==
    Strict([v \in Viewports |->
        create_cache(v.width, v.height, v.x_center, v.y_center, v.scale)])

compute_initial_and_cache_of ==
    Strict([v \in Viewports, m \in IterArgs |->
        compute_initial_and_cache(v.width, v.height, m, v.x_center, v.y_center, v.scale)])

NoCall == [fn |-> "", arg |-> 0, out |-> None]

NoApp == [live |-> FALSE]

NoRgb == [called |-> FALSE, div_time |-> <<>>, max_iter |-> 0, out |-> None]

NoMovie == [called |-> FALSE]

NoPar == [live |-> FALSE]

NoHttp == [live |-> FALSE]

Init ==
    /\ vp \in Viewports
    /\ cache = None
    /\ targets = <<>>
    /\ prev = None
    /\ ret = NoCall
    /\ app = NoApp
    /\ rgbcall = NoRgb
    /\ movie = NoMovie
    /\ par = NoPar
    /\ http = NoHttp

\* cache = create_cache(width, height, x_center, y_center, scale)
CreateCache ==
    LET r == create_cache_of[vp]
    IN  /\ ret' = [fn |-> "create_cache", arg |-> 0,
                   out |-> IF r.ok THEN Ok(<<>>) ELSE r]
        /\ cache' = IF r.ok THEN r ELSE cache
        /\ targets' = IF r.ok THEN <<>> ELSE targets
        /\ prev' = IF r.ok THEN None ELSE prev
        /\ UNCHANGED <<vp, app, rgbcall, movie, par, http>>

\* div = compute_from_cache(cache, target_iter)
ComputeFromCache(target_iter) ==
    /\ cache.ok
    /\ Len(targets) < MaxCalls
    /\ LET c == compute_from_cache(cache.val, target_iter)
       IN  /\ cache' = Ok(c)
           /\ ret' = [fn |-> "compute_from_cache", arg |-> target_iter,
                      out |-> Ok(c.div_time)]
    /\ targets' = Append(targets, target_iter)
    /\ prev' = cache
    /\ UNCHANGED <<vp, app, rgbcall, movie, par, http>>

\* div, cache = compute_initial_and_cache(width, height, max_iter, ...)
ComputeInitialAndCache(max_iter) ==
    LET r == compute_initial_and_cache_of[vp, max_iter]
    IN  /\ ret' = [fn |-> "compute_initial_and_cache", arg |-> max_iter,
                   out |-> IF r.ok THEN Ok(r.val.div_time) ELSE r]
        /\ cache' = IF r.ok THEN r ELSE cache
        /\ targets' = IF r.ok THEN <<max_iter>> ELSE targets
        /\ prev' = IF r.ok THEN create_cache_of[vp] ELSE prev
        /\ UNCHANGED <<vp, app, rgbcall, movie, par, http>>

\* div = mandelbrot(width, height, max_iter, ...) of mandelbrot/mandelbrot.py
Mandelbrot(max_iter) ==
    /\ ret' = [fn |-> "mandelbrot", arg |-> max_iter,
               out |-> mandelbrot_of[vp, max_iter]]
    /\ UNCHANGED <<vp, cache, targets, prev, app, rgbcall, movie, par, http>>

\* div = mandelbrot(width, height, max_iter, ...) of api/mandelbrot.py
ApiMandelbrot(max_iter) ==
    /\ ret' = [fn |-> "api_mandelbrot", arg |-> max_iter,
               out |-> api_mandelbrot_of[vp, max_iter]]
    /\ UNCHANGED <<vp, cache, targets, prev, app, rgbcall, movie, par, http>>

Next ==
    \/ CreateCache
    \/ \E t \in IterArgs : ComputeFromCache(t)
    \/ \E m \in IterArgs : ComputeInitialAndCache(m)
    \/ \E m \in IterArgs : Mandelbrot(m)
    \/ \E m \in IterArgs : ApiMandelbrot(m)

Spec == Init /\ [][Next]_vars

-----------------------------------------------------------------------------
(* The color_map calls, each on a one-pixel grid and an iteration bound drawn at the start *)

NoViewport == [width |-> 0, height |-> 0, x_center |-> R(0), y_center |-> R(0),
               scale |-> R(0)]

InitColor ==
    /\ vp = NoViewport
    /\ cache = None
    /\ targets = <<>>
    /\ prev = None
    /\ ret = NoCall
    /\ app = NoApp
    /\ movie = NoMovie
    /\ par = NoPar
    /\ http = NoHttp
    /\ \E d \in 0 .. MaxDivTime, m \in ColorIters :
          rgbcall = [called |-> FALSE, div_time |-> [p \in Pixels(1, 1) |-> d],
                     max_iter |-> m, out |-> None]

NaNCasts(div_time, max_iter) ==
    IF \E p \in DOMAIN div_time : NormKind(div_time[p], max_iter) = "nan"
    THEN 0 .. 255 ELSE {0}

\* rgb = color_map(div_time, max_iter)
ColorMap ==
    /\ ~rgbcall.called
    /\ \E nan_cast \in NaNCasts(rgbcall.div_time, rgbcall.max_iter) :
          rgbcall' = [rgbcall EXCEPT
                        !.called = TRUE,
                        !.out = color_map(rgbcall.div_time, rgbcall.max_iter, nan_cast)]
    /\ UNCHANGED <<vp, cache, targets, prev, ret, app, movie, par, http>>

NextColor == ColorMap

SpecColor == InitColor /\ [][NextColor]_vars

-----------------------------------------------------------------------------
(* Claims about the engines (Spec) *)

Grid == cache.val.div_time

\* C1: after create_cache, compute_from_cache(cache, t1) and compute_from_cache(cache, t2)
\* with 0 < t1 < t2, the div_time grid equals, pixel for pixel, the grid of mandelbrot
\* run with max_iter = t2 on the same geometry.
C1_IncrementalEquivalence ==
    (/\ vp.width >= 1 /\ vp.height >= 1 /\ vp.scale[1] > 0
     /\ cache.ok /\ Len(targets) = 2 /\ 0 < targets[1] /\ targets[1] < targets[2])
        => Grid = mandelbrot_of[vp, targets[2]].val

\* C2: one extend of a fresh cache to T >= 1 (create_cache then one compute_from_cache,
\* or compute_initial_and_cache) yields for every pixel the div_time of the direct
\* mandelbrot run with max_iter = T.
C2_SingleExtendEqualsDirect ==
    /\ (cache.ok /\ Len(targets) = 1 /\ targets[1] >= 1)
          => /\ mandelbrot_of[vp, targets[1]].ok
             /\ Grid = mandelbrot_of[vp, targets[1]].val
    /\ (ret.fn = "compute_initial_and_cache" /\ ret.arg >= 1 /\ ret.out.ok)
          => /\ mandelbrot_of[vp, ret.arg].ok
             /\ ret.out.val = mandelbrot_of[vp, ret.arg].val

\* a single extend was made to a bound at which one pixel has escaped and another has not
C2_Witness ==
    /\ cache.ok /\ Len(targets) = 1 /\ targets[1] >= 2
    /\ ret.fn = "compute_initial_and_cache"
    /\ \E p \in DOMAIN Grid : Grid[p] < targets[1]
    /\ \E p \in DOMAIN Grid : Grid[p] = targets[1]

\* C3: compute_from_cache(cache, target) with target <= cache.current_iter (repeated,
\* smaller, zero or negative) changes nothing in the cache and returns its div_time.
C3_NoOpExtend ==
    (ret.fn = "compute_from_cache" /\ ret.arg <= prev.val.current_iter)
        => /\ cache = prev
           /\ ret.out.ok
           /\ ret.out.val = prev.val.div_time

\* an extend to t >= 1 was repeated with the same t, and another state has a smaller one
C3_Witness ==
    /\ ret.fn = "compute_from_cache"
    /\ Len(targets) = 2
    /\ targets[1] >= 1
    /\ targets[2] <= targets[1]
    /\ prev.val.current_iter = targets[1]
    /\ DOMAIN Grid # {}

\* C4: 0 <= div_time <= max_iter for every pixel of a grid the direct engines return
\* for max_iter >= 1, and 0 <= div_time <= current_iter for every pixel of the cache.
C4_Bounds ==
    /\ cache.ok =>
          \A p \in DOMAIN Grid : 0 <= Grid[p] /\ Grid[p] <= cache.val.current_iter
    /\ (ret.fn \in {"mandelbrot", "api_mandelbrot"} /\ ret.arg >= 1 /\ ret.out.ok) =>
          \A p \in DOMAIN ret.out.val : 0 <= ret.out.val[p] /\ ret.out.val[p] <= ret.arg

\* a cache extended twice holds a pixel below current_iter, and a direct run has just
\* returned a grid with a pixel at max_iter
C4_Witness ==
    /\ cache.ok /\ Len(targets) = 2 /\ targets[1] >= 1
    /\ \E p \in DOMAIN Grid : 0 < Grid[p] /\ Grid[p] < cache.val.current_iter
    /\ ret.fn = "mandelbrot" /\ ret.arg >= 2 /\ ret.out.ok
    /\ \E p \in DOMAIN ret.out.val : ret.out.val[p] = ret.arg

InvalidViewport(v, max_iter) ==
    v.width <= 0 \/ v.height <= 0 \/ v.scale[1] <= 0 \/ max_iter <= 0

\* C6: the engine fails, instead of returning a grid, whenever width <= 0, height <= 0,
\* scale <= 0 or max_iter <= 0, and in no other case.
C6_InvalidViewportSignalled ==
    ret.fn \in {"mandelbrot", "api_mandelbrot"}
        => (~ret.out.ok <=> InvalidViewport(vp, ret.arg))

\* the guarded mapping of the Grid Builder: the divisor is max(1, n - 1)
GuardedX(v, p) ==
    LET e == Extent(v.width, v.height, v.x_center, v.y_center, v.scale)
    IN  Lerp(e.x_min, e.x_max, p[2], Max(1, v.width - 1))

GuardedY(v, p) ==
    LET e == Extent(v.width, v.height, v.x_center, v.y_center, v.scale)
    IN  Lerp(e.y_min, e.y_max, p[1], Max(1, v.height - 1))

\* C7: for every valid viewport, width == 1 and height == 1 included, the grid builder,
\* create_cache and both engines divide by max(1, n - 1): none fails, and the cache
\* holds x0 = x_min + (x_max-x_min)*i/max(1,width-1), y0 likewise.
C7_MappingTotal ==
    (vp.width >= 1 /\ vp.height >= 1 /\ vp.scale[1] > 0) =>
        /\ ret.fn \in {"mandelbrot", "api_mandelbrot", "create_cache",
                       "compute_initial_and_cache"} => ret.out.ok
        /\ cache.ok => \A p \in DOMAIN Grid :
                          /\ cache.val.x0[p] = GuardedX(vp, p)
                          /\ cache.val.y0[p] = GuardedY(vp, p)

\* z^2 + c on pairs <<re, im>>
SquarePlus(z, c) ==
    <<RAdd(RSub(RMul(z[1], z[1]), RMul(z[2], z[2])), c[1]),
      RAdd(RMul(R(2), RMul(z[1], z[2])), c[2])>>

\* the smallest k in k0..max_iter with |z_k|^2 > 4, where z is z_(k0-1), or max_iter
RECURSIVE FirstEscape(_, _, _, _)
FirstEscape(z, c, k0, max_iter) ==
    LET zk == SquarePlus(z, c)
    IN  IF k0 > max_iter THEN max_iter
        ELSE IF RGt(RAdd(RMul(zk[1], zk[1]), RMul(zk[2], zk[2])), R(4)) THEN k0
        ELSE FirstEscape(zk, c, k0 + 1, max_iter)

\* the viewport of the scenario: 4 x 4, centre -0.5 + 0i, scale 1.5, max_iter 50
ScenarioViewport ==
    [width |-> 4, height |-> 4, x_center |-> Rat(-1, 2), y_center |-> R(0),
     scale |-> Rat(3, 2)]

ScenarioCorner == <<3, 3>>

\* the scenario: a pixel at c = 0 run to 50 yields 50, also in the scenario viewport,
\* and the pixel of the scenario viewport nearest 2+2i yields at most 2
C14_ScenarioPixels ==
    /\ EscapeLoop(R(0), R(0), 0, R(0), R(0), 50) = 50
    /\ \A p \in Pixels(4, 4) :
          (GuardedX(ScenarioViewport, p) = R(0) /\ GuardedY(ScenarioViewport, p) = R(0))
             => EscapeLoop(R(0), R(0), 0, R(0), R(0), 50) = 50
    /\ EscapeLoop(R(0), R(0), 0, GuardedX(ScenarioViewport, ScenarioCorner),
                  GuardedY(ScenarioViewport, ScenarioCorner), 50) <= 2

\* C14: every pixel's div_time of a direct run is the smallest k >= 1 with |z_k|^2 > 4
\* for z_0 = 0, z_(n+1) = z_n^2 + c, or max_iter when there is none up to max_iter; a
\* pixel at c = 0 run to 50 yields 50, and the pixel of the 4 x 4 scenario viewport
\* nearest 2+2i yields at most 2.
C14_EscapeTime ==
    /\ (ret.fn \in {"mandelbrot", "api_mandelbrot"} /\ ret.arg >= 1 /\ ret.out.ok) =>
          \A p \in DOMAIN ret.out.val :
              ret.out.val[p] =
                  FirstEscape(<<R(0), R(0)>>, <<GuardedX(vp, p), GuardedY(vp, p)>>, 1, ret.arg)
    /\ C14_ScenarioPixels

\* a direct run to a bound of 3 or more returned a grid where one pixel escaped at
\* step 1 and one reached the bound; the scenario's corner pixel is c = 1 + 1.5i
C14_Witness ==
    /\ ret.fn = "mandelbrot" /\ ret.out.ok /\ ret.arg >= 3
    /\ \E p \in DOMAIN ret.out.val : ret.out.val[p] = 1
    /\ \E p \in DOMAIN ret.out.val : ret.out.val[p] = ret.arg
    /\ GuardedX(ScenarioViewport, ScenarioCorner) = R(1)
    /\ GuardedY(ScenarioViewport, ScenarioCorner) = Rat(3, 2)

\* z_n of the orbit z_0 = 0, z_(k+1) = z_k^2 + c
RECURSIVE Orbit(_, _)
Orbit(c, n) == IF n <= 0 THEN <<R(0), R(0)>> ELSE SquarePlus(Orbit(c, n - 1), c)

\* C19: a pixel whose div_time is > 0 is frozen: no later step and no later
\* compute_from_cache call changes its div_time, iters, zx or zy (they stay those of
\* the step at which it was written), and no extend modifies x0 or y0.
C19_Frozen ==
    /\ (prev.ok /\ cache.ok) =>
          /\ cache.val.x0 = prev.val.x0
          /\ cache.val.y0 = prev.val.y0
          /\ \A p \in DOMAIN prev.val.div_time :
                prev.val.div_time[p] > 0 =>
                   /\ cache.val.div_time[p] = prev.val.div_time[p]
                   /\ cache.val.iters[p] = prev.val.iters[p]
                   /\ cache.val.zx[p] = prev.val.zx[p]
                   /\ cache.val.zy[p] = prev.val.zy[p]
    /\ cache.ok =>
          \A p \in DOMAIN Grid :
             Grid[p] > 0 =>
                <<cache.val.zx[p], cache.val.zy[p]>>
                   = Orbit(<<cache.val.x0[p], cache.val.y0[p]>>, Grid[p])

\* a cache holding a pixel that escaped at step 1 was extended again to a higher target
C19_Witness ==
    /\ prev.ok /\ cache.ok /\ Len(targets) = 2
    /\ 0 < targets[1] /\ targets[1] < targets[2]
    /\ cache.val.current_iter = targets[2]
    /\ \E p \in DOMAIN Grid : prev.val.div_time[p] = 1 /\ Grid[p] = 1
    /\ \E p \in DOMAIN Grid : cache.val.zx[p] # R(0) /\ cache.val.zx[p] # cache.val.x0[p]

\* C20: a pixel has div_time = 0 if and only if current_iter = 0, and every extend
\* with target > current_iter leaves every pixel with div_time >= 1 and
\* div_time = iters.
C20_ZeroOnlyBeforeFirstExtend ==
    /\ cache.ok =>
          \A p \in DOMAIN Grid : (Grid[p] = 0) <=> (cache.val.current_iter = 0)
    /\ (cache.ok /\ prev.ok /\ ret.fn \in {"compute_from_cache", "compute_initial_and_cache"}
        /\ ret.arg > prev.val.current_iter) =>
          \A p \in DOMAIN Grid : Grid[p] >= 1 /\ Grid[p] = cache.val.iters[p]

\* a no-op extend left a fresh cache at zero, and the next extend wrote an escape at
\* step 1 and finalized a pixel at the target
C20_Witness ==
    /\ cache.ok /\ prev.ok /\ Len(targets) = 2
    /\ targets[1] <= 0 /\ targets[2] >= 2
    /\ prev.val.current_iter = 0
    /\ \A p \in DOMAIN Grid : prev.val.div_time[p] = 0
    /\ \E p \in DOMAIN Grid : Grid[p] = 1
    /\ \E p \in DOMAIN Grid : Grid[p] = targets[2]

\* the first target that advanced the cache
RECURSIVE FirstAdvance(_)
FirstAdvance(ts) ==
    IF ts = <<>> THEN 0 ELSE IF Head(ts) >= 1 THEN Head(ts) ELSE FirstAdvance(Tail(ts))

-----------------------------------------------------------------------------
(* Claims about color_map (SpecColor) *)

\* the one pixel of the call, its count, and its channels
Px == <<0, 0>>

PxCount == rgbcall.div_time[Px]

PxRgb == rgbcall.out.val[Px]

\* C8: color_map called with max_iter <= 0 fails and returns no RGB grid.
C8_InvalidIterationBound ==
    (rgbcall.called /\ rgbcall.max_iter <= 0) => ~rgbcall.out.ok

\* C9 as stated: with max_iter = 100, div_time = 0 maps to r = 255, g about 127
\* (126 .. 128), b = 0 and div_time = 100 maps to r = 0, g about 127, b = 255.
C9_ScenarioAsStated ==
    (rgbcall.called /\ rgbcall.max_iter = 100) =>
        /\ PxCount = 0 =>
              PxRgb[1] = 255 /\ PxRgb[2] \in 126 .. 128 /\ PxRgb[3] = 0
        /\ PxCount = 100 =>
              PxRgb[1] = 0 /\ PxRgb[2] \in 126 .. 128 /\ PxRgb[3] = 255

\* C9 amended: with max_iter = 100, div_time = 0 maps to (255, 255, 0) and
\* div_time = 100 maps to (0, 255, 255): 3*|norm - 0.5| = 1.5 clips to 1 at both ends;
\* the green channel is 0 at norm = 0.5 (div_time = 25).
C9_Scenario ==
    (rgbcall.called /\ rgbcall.max_iter = 100) =>
        /\ rgbcall.out.ok
        /\ PxCount = 0 => PxRgb = <<255, 255, 0>>
        /\ PxCount = 100 => PxRgb = <<0, 255, 255>>
        /\ PxCount = 25 => PxRgb[2] = 0

\* color_map has returned for div_time = 100, max_iter = 100
C9_Witness ==
    rgbcall.called /\ rgbcall.max_iter = 100 /\ PxCount = 100 /\ rgbcall.out.ok

\* C10: for max_iter >= 1 and div_time >= 0, div_time > max_iter included, every
\* channel is the integer part of a float in [0, 255], so the 8-bit value does not wrap;
\* from div_time >= max_iter on the pixel is saturated at (0, 255, 255).
C10_ChannelsInRange ==
    (rgbcall.called /\ rgbcall.max_iter >= 1 /\ PxCount >= 0) =>
        LET norm == NormOf(PxCount, rgbcall.max_iter)
            red == Trunc(AffScale(255 * 3, AffRSub(1, norm)))
            blue == Trunc(AffScale(255 * 3, norm))
        IN  /\ rgbcall.out.ok
            /\ \A ch \in 1 .. 3 : PxRgb[ch] \in 0 .. 255
            /\ PxRgb[1] = Max(0, Min(255, red))
            /\ PxRgb[3] = Max(0, Min(255, blue))
            /\ PxCount >= rgbcall.max_iter => PxRgb = <<0, 255, 255>>
            /\ 36 * PxCount <= rgbcall.max_iter => PxRgb[2] = 255

\* color_map has returned for a div_time above max_iter
C10_Witness ==
    /\ rgbcall.called /\ rgbcall.out.ok
    /\ rgbcall.max_iter >= 1 /\ PxCount > rgbcall.max_iter

-----------------------------------------------------------------------------
(* The ZoomApp session of zoom_mode.py *)

\* largest number of GUI events handled in one session
MaxEvents == 2

AppDims == 1 .. MaxDim
\* committed iteration counts a session starts with: int(1.25 * 1) = 1, int(1.25 * 4) = 5
AppIters == {1, 4}
AppScales == {1}

\* int(x * 1.25) for an int x >= 0
Int125(x) == (x * 5) \div 4

\* int(x) of a float: truncation towards zero
IntOf(r) == IF r[1] >= 0 THEN r[1] \div r[2] ELSE -((-r[1]) \div r[2])

\* positions of the "Iter+" slider, which runs over [0, 1]
SliderVals == {R(0), Rat(1, 2), R(1)}

\* int(base_max_iter * (1.0 + val)): a slider that reaches +100%
slider_iters_doubling(base_max_iter, val) ==
    IntOf(RMul(R(base_max_iter), RAdd(R(1), val)))

\* int(base_max_iter * (1.0 + 0.25 * val))
slider_iters(base_max_iter, val) ==
    IntOf(RMul(R(base_max_iter), RAdd(R(1), RMul(Rat(1, 4), val))))

\* an image, held as the arguments it was rendered with
Image(width, height, max_iter, x_center, y_center, scale) ==
    [width |-> width, height |-> height, max_iter |-> max_iter,
     x_center |-> x_center, y_center |-> y_center, scale |-> scale]

\* im_artist is None: nothing is displayed
NoImage == Image(0, 0, 0, R(0), R(0), R(0))

\* ZoomApp.__init__: the fields; the cache is built only when the initial image
\* cannot be loaded, and stays None when building it raises.  slider is
\* iter_slider.val, shown the image on display, events the number of GUI events
\* handled so far and last the handler that ran last.
ZoomApp(width, height, max_iter, x_center, y_center, scale) ==
    [live |-> TRUE, width |-> width, height |-> height, max_iter |-> max_iter,
     x_center |-> x_center, y_center |-> y_center, scale |-> scale,
     seq |-> 0, base_max_iter |-> max_iter, files |-> <<>>, events |-> 0,
     slider |-> R(0), shown |-> NoImage, last |-> "__init__"]

InitZoom ==
    \E w \in AppDims, h \in AppDims, m \in AppIters, xc \in XCenters, yc \in YCenters,
       sc \in AppScales, loaded \in BOOLEAN :
        LET r == compute_initial_and_cache(w, h, m, R(xc), R(yc), R(sc))
        IN  /\ vp = [width |-> w, height |-> h, x_center |-> R(xc), y_center |-> R(yc),
                     scale |-> R(sc)]
            /\ app = [ZoomApp(w, h, m, R(xc), R(yc), R(sc)) EXCEPT
                         !.shown = IF loaded \/ r.ok
                                   THEN Image(w, h, m, R(xc), R(yc), R(sc)) ELSE NoImage]
            /\ cache = IF ~loaded /\ r.ok THEN r ELSE None
            /\ targets = IF ~loaded /\ r.ok THEN <<m>> ELSE <<>>
            /\ prev = None
            /\ ret = NoCall
            /\ rgbcall = NoRgb
            /\ movie = NoMovie
            /\ par = NoPar
            /\ http = NoHttp

\* ZoomApp._pixel_to_complex
pixel_to_complex(a, px, py) ==
    LET e == Extent(a.width, a.height, a.x_center, a.y_center, a.scale)
    IN  <<Lerp(e.x_min, e.x_max, px, Max(1, a.width - 1)),
          Lerp(e.y_min, e.y_max, py, Max(1, a.height - 1))>>

\* ZoomApp._on_click, for a click inside the image axes at pixel (px, py)
OnClick(px, py) ==
    /\ app.live
    /\ app.events < MaxEvents
    /\ LET new == pixel_to_complex(app, px, py)
           moved == [app EXCEPT !.x_center = new[1], !.y_center = new[2],
                                !.scale = RMul(app.scale, Rat(1, 4)),
                                !.events = app.events + 1, !.last = "_on_click"]
           miters == Int125(app.max_iter)
           png == Image(app.width, app.height, app.max_iter,
                        moved.x_center, moved.y_center, moved.scale)
           meta == [x_center |-> moved.x_center, y_center |-> moved.y_center,
                    scale |-> moved.scale, px |-> px, py |-> py,
                    max_iter |-> app.max_iter]
           saved == [moved EXCEPT !.files = Append(app.files, [png |-> png, meta |-> meta]),
                                  !.shown = png,
                                  !.seq = app.seq + 1]
           direct == mandelbrot_raises(app.width, app.height)
       IN  IF cache.ok
           THEN \* the cache is not None: it is extended, whatever it was built for
                LET c == compute_from_cache(cache.val, miters)
                IN  /\ cache' = Ok(c)
                    /\ prev' = cache
                    /\ targets' = Append(targets, miters)
                    /\ ret' = [fn |-> "compute_from_cache", arg |-> miters,
                               out |-> Ok(c.div_time)]
                    /\ app' = IF direct.ok THEN saved ELSE moved
           ELSE \* no cache: a direct run; when it raises the handler ends there
                /\ ret' = [fn |-> "mandelbrot", arg |-> miters, out |-> direct]
                /\ app' = IF direct.ok THEN saved ELSE moved
                /\ UNCHANGED <<cache, prev, targets>>
    /\ UNCHANGED <<vp, rgbcall, movie, par, http>>

\* _slider_changed that also commits the temporary count
slider_changed_committing(a, val) ==
    [a EXCEPT !.max_iter = slider_iters(a.base_max_iter, val),
              !.shown = Image(a.width, a.height, slider_iters(a.base_max_iter, val),
                              a.x_center, a.y_center, a.scale)]

\* ZoomApp._slider_changed(val): the object after the call; a render that raises is
\* caught and leaves the display as it was
slider_changed(a, val) ==
    LET miters == slider_iters(a.base_max_iter, val)
    IN  IF mandelbrot_raises(a.width, a.height).ok
        THEN [a EXCEPT !.shown = Image(a.width, a.height, miters,
                                       a.x_center, a.y_center, a.scale)]
        ELSE a

\* the slider is moved to val: the widget stores val and calls _slider_changed(val)
SliderChanged(val) ==
    /\ app.live
    /\ app.events < MaxEvents
    /\ app' = slider_changed([app EXCEPT !.slider = val, !.events = app.events + 1,
                                         !.last = "_slider_changed"], val)
    /\ ret' = [fn |-> "mandelbrot", arg |-> slider_iters(app.base_max_iter, val),
               out |-> mandelbrot_raises(app.width, app.height)]
    /\ UNCHANGED <<vp, cache, targets, prev, rgbcall, movie, par, http>>

\* ZoomApp._slider_released(event): a mouse button is released over the figure
SliderReleased ==
    /\ app.live
    /\ app.events < MaxEvents
    /\ LET seen == [app EXCEPT !.events = app.events + 1, !.last = "_slider_released"]
           new_miters == slider_iters(app.base_max_iter, app.slider)
           committed == IF new_miters # app.base_max_iter
                        THEN [seen EXCEPT !.base_max_iter = new_miters,
                                          !.max_iter = new_miters]
                        ELSE seen
           \* iter_slider.set_val(0.0) calls _slider_changed(0.0)
           reset == slider_changed([committed EXCEPT !.slider = R(0)], R(0))
           direct == mandelbrot_raises(app.width, app.height)
       IN  IF app.slider # R(0)
           THEN /\ app' = IF direct.ok
                          THEN [reset EXCEPT !.shown =
                                   Image(reset.width, reset.height, reset.base_max_iter,
                                         reset.x_center, reset.y_center, reset.scale)]
                          ELSE reset
                /\ ret' = [fn |-> "mandelbrot", arg |-> committed.base_max_iter,
                           out |-> direct]
           ELSE /\ app' = seen
                /\ UNCHANGED ret
    /\ UNCHANGED <<vp, cache, targets, prev, rgbcall, movie, par, http>>

NextZoom ==
    \/ \E px \in 0 .. app.width - 1, py \in 0 .. app.height - 1 : OnClick(px, py)
    \/ \E val \in SliderVals : SliderChanged(val)
    \/ SliderReleased

SpecZoom == InitZoom /\ [][NextZoom]_vars

-----------------------------------------------------------------------------
(* Claims about the session (SpecZoom) *)

AppGrid == build_grid(app.width, app.height, app.x_center, app.y_center, app.scale)

\* C5: extending a cache built for another width, height or geometry than the viewport
\* being rendered is rejected with CacheGeometryMismatch and leaves the cache unchanged.
C5_GeometryMismatchRejected ==
    (/\ app.live /\ ret.fn = "compute_from_cache" /\ prev.ok /\ AppGrid.ok
     /\ (prev.val.x0 # AppGrid.val.x \/ prev.val.y0 # AppGrid.val.y))
        => /\ ~ret.out.ok
           /\ ret.out.err = "CacheGeometryMismatch"
           /\ cache = prev

\* the committed viewport of the session
Committed(a) == <<a.max_iter, a.base_max_iter, a.x_center, a.y_center, a.scale>>

\* C18: a slider movement leaves the committed viewport (max_iter, base_max_iter,
\* x_center, y_center, scale), seq and the cache unchanged; the committed max_iter
\* changes only in _slider_released with a non-zero slider value.
C18_SliderNotCommitted ==
    [][/\ (app'.last = "_slider_changed" /\ app'.events = app.events + 1)
            => /\ Committed(app') = Committed(app)
               /\ app'.seq = app.seq
               /\ app'.files = app.files
               /\ cache' = cache
       /\ (app'.max_iter # app.max_iter \/ app'.base_max_iter # app.base_max_iter)
            => /\ app'.last = "_slider_released"
               /\ app.slider # R(0)]_vars

\* a slider movement has put a render at a higher count than the committed one on display
C18_Witness ==
    /\ app.live /\ app.last = "_slider_changed" /\ app.slider # R(0)
    /\ app.shown.max_iter > app.max_iter
    /\ app.max_iter = app.base_max_iter

\* C15: after a click, compute_from_cache is never invoked on a cache whose x0/y0 grid
\* was built for a geometry other than the session's current x_center, y_center, scale:
\* the cache is discarded when the geometry changes.
C15_CacheDiscardedOnGeometryChange ==
    (app.live /\ app.last = "_on_click" /\ AppGrid.ok) =>
        /\ ret.fn = "compute_from_cache"
              => (prev.val.x0 = AppGrid.val.x /\ prev.val.y0 = AppGrid.val.y)
        /\ cache.ok
              => (cache.val.x0 = AppGrid.val.x /\ cache.val.y0 = AppGrid.val.y)

\* the grid _build_grid assigns to the viewport of session object a
GridOf(a) == build_grid(a.width, a.height, a.x_center, a.y_center, a.scale)

\* C21: a handled click at pixel (px, py) sets the centre to the coordinate the Grid
\* Builder assigns to (px, py) under the pre-click viewport, multiplies scale by 0.25,
\* leaves width, height and the committed max_iter unchanged and increments seq by 1.
C21_ClickMapsThroughGrid ==
    [][(app'.last = "_on_click" /\ app'.events = app.events + 1) =>
          /\ GridOf(app).ok
          /\ \E p \in Pixels(app.width, app.height) :
                /\ app'.x_center = GridOf(app).val.x[p]
                /\ app'.y_center = GridOf(app).val.y[p]
          /\ RMul(app'.scale, R(4)) = app.scale
          /\ app'.width = app.width /\ app'.height = app.height
          /\ app'.max_iter = app.max_iter /\ app'.base_max_iter = app.base_max_iter
          /\ app'.seq = app.seq + 1]_vars

\* base_max_iter is max_iter, and every saved keyframe's metadata records the
\* max_iter its PNG was rendered with
C23_State ==
    app.live =>
        /\ app.base_max_iter = app.max_iter
        /\ \A k \in 1 .. Len(app.files) :
              app.files[k].meta.max_iter = app.files[k].png.max_iter

\* the committed value never decreases and a step raises it to at most int(1.25 * it)
C23_Step ==
    /\ app'.max_iter >= app.max_iter
    /\ app'.max_iter <= Int125(app.max_iter)

\* C23: in every reachable state of a session base_max_iter == max_iter, the committed
\* value never decreases, each commit raises it to at most int(1.25 * previous), and
\* the max_iter in each keyframe's metadata is the one its saved PNG was rendered with.
C23_CommittedIterations == []C23_State /\ [][C23_Step]_vars

\* a slider release has just committed a raised iteration count
C23_Witness ==
    /\ app.live /\ app.last = "_slider_released"
    /\ app.max_iter = 5 /\ app.base_max_iter = 5
    /\ app.shown.max_iter = 5
    /\ app.slider = R(0)

-----------------------------------------------------------------------------
(* make_movie_from_dir of zoom_mode.py: the keyframe interpolator *)

\* most keyframe files in the frames directory
MaxKeys == 2
\* largest steps argument
MaxSteps == 2

\* the width and height arguments of make_movie_from_dir
MovieDims == {1, 2}
\* the max_iter argument of make_movie_from_dir
MovieIter == 3

\* dict.get(key, default)
Get(d, key, default) == IF key \in DOMAIN d THEN d[key] ELSE default

\* the metadata dicts _on_click writes: x_center, y_center, scale, px, py, max_iter
ClickMetas ==
    {[x_center |-> R(x), y_center |-> R(0), scale |-> z.scale, px |-> 0, py |-> 0,
      max_iter |-> z.max_iter] :
        x \in {0, 1}, z \in {[scale |-> R(1), max_iter |-> 4],
                             [scale |-> Rat(1, 4), max_iter |-> 5]}}

\* a metadata dict with one key removed
Without(d, key) == [k \in DOMAIN d \ {key} |-> d[k]]

\* what load_meta can return: a dict written by _on_click, a dict that lacks one of
\* the interpolated keys, or None (no JSON file, or one that does not parse)
Metas ==
    {Ok(d) : d \in ClickMetas}
    \cup {Ok(Without([x_center |-> R(1), y_center |-> R(0), scale |-> Rat(1, 4), px |-> 0,
                      py |-> 0, max_iter |-> 5], k)) :
             k \in {"x_center", "y_center", "scale", "max_iter"}}
    \cup {None}

\* a {prefix}_NNN.png file with its JSON: whether Image.open succeeds, and the metadata
KeyFiles == [loadable : BOOLEAN, meta : Metas]

\* truth value of a load_meta result
Truthy(m) == m.ok /\ DOMAIN m.val # {}

\* the interpolation with its ends exchanged
Mix_reversed(t, a, b) == RAdd(RMul(t, a), RMul(RSub(R(1), t), b))

\* (1 - t) * a + t * b
Mix(t, a, b) == RAdd(RMul(RSub(R(1), t), a), RMul(t, b))

\* a frame appended to frames: a keyframe image as loaded, or an interpolated render
KeyFrame(idx) ==
    [key |-> TRUE, idx |-> idx, s |-> 0, image |-> Image(0, 0, 0, R(0), R(0), R(0))]
InterpFrame(idx, s, image) == [key |-> FALSE, idx |-> idx, s |-> s, image |-> image]

\* base_w, base_h: Image.open(files[0]) succeeds or not, `_.size` raises NameError
\* inside the try, so the fallback arguments are always taken
base_size(width, height) == <<width, height>>

\* the viewport of interpolation step s between meta_a and meta_b
interp_viewport(meta_a, meta_b, s, steps, width, height, max_iter) ==
    LET t == Rat(s, steps + 1)
        cx == Mix(t, Get(meta_a, "x_center", R(0)), Get(meta_b, "x_center", R(0)))
        cy == Mix(t, Get(meta_a, "y_center", R(0)), Get(meta_b, "y_center", R(0)))
        sc == Mix(t, Get(meta_a, "scale", R(1)), Get(meta_b, "scale", R(1)))
        miters == IntOf(Mix(t, R(Get(meta_a, "max_iter", max_iter)),
                               R(Get(meta_b, "max_iter", max_iter))))
        base == base_size(width, height)
        w == IF base[1] # 0 THEN base[1] ELSE Get(meta_a, "width", width)
        h == IF base[2] # 0 THEN base[2] ELSE Get(meta_a, "height", height)
    IN  Image(w, h, miters, cx, cy, sc)

\* the loop over s: a render that raises ends the loop
RECURSIVE interp_frames(_, _, _, _, _, _, _, _)
interp_frames(idx, meta_a, meta_b, s, steps, width, height, max_iter) ==
    IF s > steps THEN <<>>
    ELSE LET v == interp_viewport(meta_a, meta_b, s, steps, width, height, max_iter)
         IN  IF ~mandelbrot_raises(v.width, v.height).ok THEN <<>>
             ELSE <<InterpFrame(idx, s, v)>>
                  \o interp_frames(idx, meta_a, meta_b, s + 1, steps, width, height, max_iter)

\* the loop over the files, from index idx on
RECURSIVE movie_frames(_, _, _, _, _, _)
movie_frames(files, idx, steps, width, height, max_iter) ==
    IF idx > Len(files) THEN <<>>
    ELSE IF ~files[idx].loadable
         THEN movie_frames(files, idx + 1, steps, width, height, max_iter)
         ELSE <<KeyFrame(idx)>>
              \o (IF idx + 1 <= Len(files) /\ Truthy(files[idx].meta)
                                           /\ Truthy(files[idx + 1].meta)
                  THEN interp_frames(idx, files[idx].meta.val, files[idx + 1].meta.val,
                                     1, steps, width, height, max_iter)
                  ELSE <<>>)
              \o movie_frames(files, idx + 1, steps, width, height, max_iter)

\* make_movie_from_dir: it returns out_name on every path; val is the frames of the GIF
make_movie_from_dir(files, steps, width, height, max_iter) ==
    Ok(movie_frames(files, 1, steps, width, height, max_iter))

InitMovie ==
    /\ vp = NoViewport
    /\ cache = None
    /\ targets = <<>>
    /\ prev = None
    /\ ret = NoCall
    /\ app = NoApp
    /\ rgbcall = NoRgb
    /\ par = NoPar
    /\ http = NoHttp
    /\ \E n \in 1 .. MaxKeys, steps \in 0 .. MaxSteps, w \in MovieDims, h \in MovieDims :
       \E files \in [1 .. n -> KeyFiles] :
          movie = [called |-> FALSE, files |-> files, steps |-> steps, width |-> w,
                   height |-> h, max_iter |-> MovieIter, out |-> None]

\* make_movie_from_dir(out_dir, prefix, steps=steps, width=width, height=height, ...)
MakeMovie ==
    /\ ~movie.called
    /\ movie' = [movie EXCEPT
                   !.called = TRUE,
                   !.out = make_movie_from_dir(movie.files, movie.steps, movie.width,
                                               movie.height, movie.max_iter)]
    /\ UNCHANGED <<vp, cache, targets, prev, ret, app, rgbcall, par, http>>

NextMovie == MakeMovie

SpecMovie == InitMovie /\ [][NextMovie]_vars

-----------------------------------------------------------------------------
(* Claims about the keyframe interpolator (SpecMovie) *)

Frames == movie.out.val
NKeys == Len(movie.files)
InterpKeys == {"x_center", "y_center", "scale", "max_iter"}

\* every keyframe has a loadable frame and metadata
AllKeyframesUsable ==
    \A i \in 1 .. NKeys : movie.files[i].loadable /\ Truthy(movie.files[i].meta)

\* C11: for N keyframes, each with a loadable frame and metadata, and step count S,
\* exactly 1 + (N-1)*(S+1) frames are emitted.
C11_FrameCount ==
    (movie.called /\ AllKeyframesUsable)
        => Len(Frames) = 1 + (NKeys - 1) * (movie.steps + 1)

\* position k of the order the interpolator is to emit: keyframe, then s = 1..S
OrderAt(k, S) ==
    LET idx == ((k - 1) \div (S + 1)) + 1
        s == (k - 1) % (S + 1)
    IN  <<s = 0, idx, s>>

\* C12: the emitted sequence is, for each consecutive pair (A, B), A's frame, then
\* the S interpolated frames in increasing s, then B's frame; it starts with the first
\* keyframe, ends with the last, and holds every keyframe exactly once.
C12_FrameOrder ==
    (movie.called /\ AllKeyframesUsable)
        => /\ Len(Frames) = 1 + (NKeys - 1) * (movie.steps + 1)
           /\ \A k \in 1 .. Len(Frames) :
                 <<Frames[k].key, Frames[k].idx, Frames[k].s>> = OrderAt(k, movie.steps)

\* the metadata of both ends of an interpolated frame carry every interpolated key
FullPair(f) ==
    /\ InterpKeys \subseteq DOMAIN movie.files[f.idx].meta.val
    /\ InterpKeys \subseteq DOMAIN movie.files[f.idx + 1].meta.val

\* ((S + 1 - s) * a + s * b) / (S + 1)
Between(f, a, b) ==
    RDivInt(RAdd(RMul(R(movie.steps + 1 - f.s), a), RMul(R(f.s), b)), movie.steps + 1)

AtoB(f, key) ==
    Between(f, movie.files[f.idx].meta.val[key], movie.files[f.idx + 1].meta.val[key])

IterAtoB(f) ==
    Between(f, R(movie.files[f.idx].meta.val.max_iter),
               R(movie.files[f.idx + 1].meta.val.max_iter))

CentreAndScaleInterpolated(f) ==
    /\ f.image.x_center = AtoB(f, "x_center")
    /\ f.image.y_center = AtoB(f, "y_center")
    /\ f.image.scale = AtoB(f, "scale")

\* C13 as stated: the interpolated max_iter is the interpolation rounded to
\* the nearest integer.
C13_RoundedToNearest ==
    movie.called =>
        \A k \in 1 .. Len(Frames) :
            LET f == Frames[k]
            IN  (~f.key /\ FullPair(f)) =>
                   /\ CentreAndScaleInterpolated(f)
                   /\ RLeq(RSub(IterAtoB(f), R(f.image.max_iter)), Rat(1, 2))
                   /\ RLeq(RSub(R(f.image.max_iter), IterAtoB(f)), Rat(1, 2))

\* C13: for each step s in 1..S with t = s/(S+1), the rendered viewport has x_center,
\* y_center and scale equal to (1-t)*A + t*B, and max_iter equal to
\* (1-t)*A.max_iter + t*B.max_iter truncated to an integer (int()).
C13_Truncated ==
    movie.called =>
        \A k \in 1 .. Len(Frames) :
            LET f == Frames[k]
            IN  (~f.key /\ FullPair(f)) =>
                   /\ CentreAndScaleInterpolated(f)
                   /\ RLeq(R(f.image.max_iter), IterAtoB(f))
                   /\ ~RLeq(R(f.image.max_iter + 1), IterAtoB(f))

C13_Witness ==
    /\ movie.called
    /\ \E k \in 1 .. Len(Frames) :
          /\ ~Frames[k].key /\ FullPair(Frames[k])
          /\ IterAtoB(Frames[k])[2] = 3
          /\ Frames[k].image.scale # movie.files[Frames[k].idx].meta.val.scale

\* a pair of adjacent keyframes the interpolation loop runs on
InterpolatedPair(i) ==
    /\ i + 1 <= NKeys /\ movie.steps >= 1
    /\ movie.files[i].loadable
    /\ Truthy(movie.files[i].meta) /\ Truthy(movie.files[i + 1].meta)

\* C16: a keyframe record lacking x_center, y_center, scale or max_iter, or an
\* interpolated render that raises, is reported to the caller as a failure, not
\* replaced by defaults or dropped from the frame sequence.
C16_FailuresReported ==
    (/\ movie.called
     /\ \E i \in 1 .. NKeys :
           /\ InterpolatedPair(i)
           /\ \/ ~(InterpKeys \subseteq DOMAIN movie.files[i].meta.val)
              \/ ~(InterpKeys \subseteq DOMAIN movie.files[i + 1].meta.val)
              \/ ~mandelbrot_raises(movie.width, movie.height).ok)
        => ~movie.out.ok

-----------------------------------------------------------------------------
(* The prange loops: the rows of one run shared among parallel workers *)

Workers == {1, 2}

\* the viewports and bounds the parallel runs are made on
ParViewports == {v \in Viewports : v.width >= 2 /\ v.height >= 2 /\ v.scale[1] > 0}
ParIters == 1 .. MaxTarget

\* the cell that the body of row j, column i reads and writes
Cell_row0(j, i) == <<0, i>>

Cell(j, i) == <<j, i>>

\* the body of the pixel loops of _mandelbrot_iter at one cell
iter_body(c, p) ==
    IF c.div_time[p] # 0 THEN c
    ELSE LET x == StepX(c.zx[p], c.zy[p], c.x0[p])
             y == StepY(c.zx[p], c.zy[p], c.y0[p])
         IN  [c EXCEPT !.zx[p] = x, !.zy[p] = y, !.iters[p] = c.iters[p] + 1,
                       !.div_time[p] = IF RGt(Norm2(x, y), R(4))
                                       THEN c.iters[p] + 1 ELSE c.div_time[p]]

\* the body of the closing loops of _mandelbrot_iter at one cell
final_body(c, p) ==
    IF c.div_time[p] = 0 THEN [c EXCEPT !.div_time[p] = c.iters[p]] ELSE c

\* the body of the pixel loops of mandelbrot at one cell: x, y, iteration are locals
direct_body(c, p, max_iter) ==
    [c EXCEPT !.div_time[p] = EscapeLoop(R(0), R(0), 0, c.x0[p], c.y0[p], max_iter)]

InitPar ==
    /\ vp \in ParViewports
    /\ cache = None
    /\ targets = <<>>
    /\ prev = None
    /\ ret = NoCall
    /\ app = NoApp
    /\ rgbcall = NoRgb
    /\ movie = NoMovie
    /\ http = NoHttp
    /\ \E fn \in {"_mandelbrot_iter", "mandelbrot"}, m \in ParIters,
          owner \in [0 .. vp.height - 1 -> Workers] :
          par = [live |-> TRUE, fn |-> fn, max_iter |-> m, owner |-> owner,
                 c |-> create_cache_of[vp].val,
                 iteration |-> 0,
                 phase |-> IF fn = "mandelbrot" THEN "direct" ELSE "iter",
                 col |-> [j \in 0 .. vp.height - 1 |-> 0],
                 touched |-> [p \in Pixels(vp.width, vp.height) |-> {}]]

\* the rows of worker w that are not finished in the current prange
RowsLeft(w) == {j \in DOMAIN par.col : par.owner[j] = w /\ par.col[j] < vp.width}

\* worker w runs the loop body at the next cell of its lowest unfinished row
ParStep(w) ==
    /\ par.live /\ par.phase # "done"
    /\ RowsLeft(w) # {}
    /\ LET j == CHOOSE r \in RowsLeft(w) : \A q \in RowsLeft(w) : r <= q
           p == Cell(j, par.col[j])
       IN  par' = [par EXCEPT
                     !.c = CASE par.phase = "iter" -> iter_body(par.c, p)
                             [] par.phase = "final" -> final_body(par.c, p)
                             [] OTHER -> direct_body(par.c, p, par.max_iter),
                     !.col[j] = par.col[j] + 1,
                     !.touched[p] = par.touched[p] \cup {w}]
    /\ UNCHANGED <<vp, cache, targets, prev, ret, app, rgbcall, movie, http>>

\* the join at the end of a prange: the next iteration, the closing loops, or the return
ParJoin ==
    /\ par.live /\ par.phase # "done"
    /\ \A w \in Workers : RowsLeft(w) = {}
    /\ par' = [par EXCEPT
                 !.col = [j \in DOMAIN par.col |-> 0],
                 !.iteration = IF par.phase = "iter" THEN par.iteration + 1
                               ELSE par.iteration,
                 !.phase = CASE par.phase = "iter" /\ par.iteration + 1 < par.max_iter
                                   -> "iter"
                             [] par.phase = "iter" -> "final"
                             [] OTHER -> "done"]
    /\ UNCHANGED <<vp, cache, targets, prev, ret, app, rgbcall, movie, http>>

NextPar ==
    \/ \E w \in Workers : ParStep(w)
    \/ ParJoin

SpecPar == InitPar /\ [][NextPar]_vars

-----------------------------------------------------------------------------
(* Claims about the parallel loops (SpecPar) *)

\* C17: with the rows partitioned among parallel workers, each pixel's cells are read
\* and written by exactly one worker, and for every interleaving the grid and cache
\* state at the end equal those of the sequential sweep, so two runs of mandelbrot on
\* one viewport return the same grid.
C17_RowsIndependent ==
    par.live =>
        /\ \A p \in DOMAIN par.touched :
              /\ Cardinality(par.touched[p]) <= 1
              /\ par.touched[p] \subseteq {par.owner[p[1]]}
        /\ par.phase = "done" =>
              /\ \A p \in DOMAIN par.touched : Cardinality(par.touched[p]) = 1
              /\ par.fn = "_mandelbrot_iter" =>
                    par.c = mandelbrot_iter(create_cache_of[vp].val, 0, par.max_iter)
              /\ par.fn = "mandelbrot" =>
                    par.c.div_time = mandelbrot_of[vp, par.max_iter].val

\* two workers, each owning a row, have finished a run of two or more iterations in
\* which a pixel escaped and another did not
C17_Witness ==
    /\ par.live /\ par.phase = "done" /\ par.fn = "_mandelbrot_iter"
    /\ par.max_iter >= 2
    /\ \E j, k \in DOMAIN par.owner : par.owner[j] # par.owner[k]
    /\ \E p \in DOMAIN par.touched : par.c.div_time[p] < par.max_iter
    /\ \E p \in DOMAIN par.touched : par.c.div_time[p] = par.max_iter

-----------------------------------------------------------------------------
(* HTTP handlers: handler(request) and handler.do_GET *)

\* a text is a sequence of characters; the empty text is a parameter that the query
\* string does not carry (parse_qs drops blank values)
Digit ==
    ("0" :> 0) @@ ("1" :> 1) @@ ("2" :> 2) @@ ("3" :> 3) @@ ("4" :> 4) @@
    ("5" :> 5) @@ ("6" :> 6) @@ ("7" :> 7) @@ ("8" :> 8) @@ ("9" :> 9)

IsDigits(s) == Len(s) >= 1 /\ \A i \in 1 .. Len(s) : s[i] \in DOMAIN Digit

RECURSIVE Decimal(_, _)
Decimal(s, acc) == IF s = <<>> THEN acc ELSE Decimal(Tail(s), 10 * acc + Digit[Head(s)])

RECURSIVE Pow10(_)
Pow10(n) == IF n = 0 THEN 1 ELSE 10 * Pow10(n - 1)

Signed(s) == s # <<>> /\ Head(s) \in {"-", "+"}

Sign(s) == IF Signed(s) /\ Head(s) = "-" THEN -1 ELSE 1

Unsigned(s) == IF Signed(s) THEN Tail(s) ELSE s

\* the characters of s before the first of cs and those after it
First(s, cs) ==
    IF \E i \in 1 .. Len(s) : s[i] \in cs
    THEN CHOOSE i \in 1 .. Len(s) : s[i] \in cs /\ \A j \in 1 .. i - 1 : s[j] \notin cs
    ELSE Len(s) + 1

Before(s, cs) == SubSeq(s, 1, First(s, cs) - 1)

After(s, cs) == SubSeq(s, First(s, cs) + 1, Len(s))

\* int(text): an optional sign and decimal digits, anything else is a ValueError
ParseInt(s) ==
    IF IsDigits(Unsigned(s)) THEN Ok(Sign(s) * Decimal(Unsigned(s), 0))
    ELSE Raise("ValueError")

NaN == <<0, 0>>

\* n * 10^shift
Scaled(n, shift) ==
    IF shift >= 0 THEN Ok(R(n * Pow10(shift))) ELSE Ok(Rat(n, Pow10(-shift)))

\* the digits before and after the point, and the exponent if there is one
Fixed(sign, ip, fp, has_exp, expo) ==
    IF ~IsDigits(ip \o fp) \/ (has_exp /\ ~IsDigits(Unsigned(expo)))
    THEN Raise("ValueError")
    ELSE Scaled(sign * Decimal(ip \o fp, 0),
                (IF has_exp THEN Sign(expo) * Decimal(Unsigned(expo), 0) ELSE 0) - Len(fp))

Scientific(sign, mant, has_exp, expo) ==
    Fixed(sign, Before(mant, {"."}), After(mant, {"."}), has_exp, expo)

FloatOf(sign, u) ==
    IF u = <<"n", "a", "n">> THEN Ok(NaN)
    ELSE IF u = <<"i", "n", "f">> THEN Ok(<<sign, 0>>)
    ELSE Scientific(sign, Before(u, {"e", "E"}), First(u, {"e", "E"}) <= Len(u),
                    After(u, {"e", "E"}))

\* float(text): an optional sign, then nan, inf, or digits with at most one point and
\* an optional exponent; anything else is a ValueError
ParseFloat(s) == FloatOf(Sign(s), Unsigned(s))

\* the defaults of handler(request) are texts
handler_defaults ==
    [width |-> <<"8", "0", "0">>, height |-> <<"6", "0", "0">>,
     max_iter |-> <<"3", "0", "0">>, x_center |-> <<"-", "0", ".", "5">>,
     y_center |-> <<"0", ".", "0">>, scale |-> <<"1", ".", "5">>]

\* the defaults of do_GET are numbers
do_GET_defaults ==
    [width |-> 800, height |-> 600, max_iter |-> 300,
     x_center |-> Rat(-1, 2), y_center |-> R(0), scale |-> Rat(3, 2)]

\* int(params.get(key, [default])[0]) and float(params.get(key, [default])[0])
IntParam(params, key, fn) ==
    IF params[key] # <<>> THEN ParseInt(params[key])
    ELSE IF fn = "handler" THEN ParseInt(handler_defaults[key])
    ELSE Ok(do_GET_defaults[key])

FloatParam(params, key, fn) ==
    IF params[key] # <<>> THEN ParseFloat(params[key])
    ELSE IF fn = "handler" THEN ParseFloat(handler_defaults[key])
    ELSE Ok(do_GET_defaults[key])

\* the six conversions in their order; the first that fails ends them
Parsed(width, height, max_iter, x_center, y_center, scale) ==
    IF ~width.ok THEN width
    ELSE IF ~height.ok THEN height
    ELSE IF ~max_iter.ok THEN max_iter
    ELSE IF ~x_center.ok THEN x_center
    ELSE IF ~y_center.ok THEN y_center
    ELSE IF ~scale.ok THEN scale
    ELSE Ok(Image(width.val, height.val, max_iter.val,
                  x_center.val, y_center.val, scale.val))

ParseParams(params, fn) ==
    Parsed(IntParam(params, "width", fn), IntParam(params, "height", fn),
           IntParam(params, "max_iter", fn), FloatParam(params, "x_center", fn),
           FloatParam(params, "y_center", fn), FloatParam(params, "scale", fn))

\* a handler that hands the parsed value on as it is
Clamp_none(lo, hi, v) == v

\* max(lo, min(hi, v))
Clamp(lo, hi, v) == Max(lo, Min(hi, v))

Response(status, type, png, text) ==
    [status |-> status, type |-> type, png |-> png, text |-> text]

\* the engine is called and its grid is coloured, overlaid (failures of the overlay
\* are swallowed) and encoded; the PNG is held as the arguments of its rendering
Rendered(call, div) ==
    IF ~div.ok
    THEN [engine |-> <<call>>,
          responses |-> <<Response(400, "text/plain", NoImage, div.err)>>]
    ELSE [engine |-> <<call>>,
          responses |-> <<Response(200, "image/png", call, "")>>]

\* the limits are applied to the parsed values
Clamped(v) ==
    Image(Clamp(50, 2000, v.width), Clamp(50, 2000, v.height),
          Clamp(10, 20000, v.max_iter), v.x_center, v.y_center, v.scale)

Served(p) ==
    IF ~p.ok
    THEN [engine |-> <<>>,
          responses |-> <<Response(400, "text/plain", NoImage, p.err)>>]
    ELSE Rendered(Clamped(p.val),
                  api_mandelbrot_raises(Clamped(p.val).width, Clamped(p.val).height))

\* the try block of a handler and its except clause: the calls it makes of the engine
\* and the responses it gives
Serve(params, fn) == Served(ParseParams(params, fn))

\* the values a request gives its parameters
WidthTexts ==
    {<<>>, <<"a", "b", "c">>, <<"-", "1">>, <<"0">>, <<"4", "9">>, <<"5", "0">>,
     <<"2", "0", "0", "0">>, <<"2", "0", "0", "1">>}

HeightTexts ==
    {<<>>, <<"1", ".", "5">>, <<"-", "7">>, <<"0">>, <<"+", "5", "1">>,
     <<"2", "0", "0", "1">>}

IterTexts ==
    {<<>>, <<"1", "e", "3">>, <<"-", "5">>, <<"9">>, <<"1", "0">>,
     <<"2", "0", "0", "0", "0">>, <<"2", "0", "0", "0", "1">>}

CentreTexts == {<<>>, <<"-", "0", ".", "7", "5">>, <<"x">>}

ScaleTexts ==
    {<<>>, <<"0">>, <<"-", "1", ".", "5">>, <<"2", "e", "-", "3">>, <<"n", "a", "n">>,
     <<"1", ".", "5", "x">>}

\* the query strings a request can carry
Requests ==
    [width : WidthTexts, height : HeightTexts, max_iter : IterTexts,
     x_center : CentreTexts, y_center : CentreTexts, scale : ScaleTexts]

\* the handler has run: its calls and its responses are on record
Answered(fn, served) ==
    [http EXCEPT !.fn = fn, !.engine = served.engine, !.responses = served.responses]

\* a request has arrived and no handler has run
InitApi ==
    /\ vp = NoViewport
    /\ cache = None
    /\ targets = <<>>
    /\ prev = None
    /\ ret = NoCall
    /\ app = NoApp
    /\ rgbcall = NoRgb
    /\ movie = NoMovie
    /\ par = NoPar
    /\ \E params \in Requests :
          http = [live |-> TRUE, fn |-> "", params |-> params,
                  engine |-> <<>>, responses |-> <<>>]

\* handler(request) of the serverless function
Handler ==
    /\ http.live /\ http.fn = ""
    /\ http' = Answered("handler", Serve(http.params, "handler"))
    /\ UNCHANGED <<vp, cache, targets, prev, ret, app, rgbcall, movie, par>>

\* handler.do_GET of the HTTP server
DoGET ==
    /\ http.live /\ http.fn = ""
    /\ http' = Answered("do_GET", Serve(http.params, "do_GET"))
    /\ UNCHANGED <<vp, cache, targets, prev, ret, app, rgbcall, movie, par>>

NextApi == Handler \/ DoGET

SpecApi == InitApi /\ [][NextApi]_vars

-----------------------------------------------------------------------------
(* Claims about the HTTP handlers (SpecApi) *)

\* the parameters the request carries, or the handler's defaults, all convert
ParamsParse == ParseParams(http.params, http.fn).ok

InRange(call) ==
    /\ 50 <= call.width /\ call.width <= 2000
    /\ 50 <= call.height /\ call.height <= 2000
    /\ 10 <= call.max_iter /\ call.max_iter <= 20000

====
